---- MODULE Spec2Model ----
(***************************************************************************)
(* autodeletto: a chat bot that keeps at most `limit` non-pinned messages  *)
(* per monitored channel.  main.rs turns gateway events and slash commands *)
(* into Command values sent over one mpsc channel; msgman.rs runs a single *)
(* task (the actor) that owns the registry `channel_queues` and applies    *)
(* the commands one at a time.                                             *)
(*                                                                         *)
(* A message is its identifier.  Identifiers are snowflakes, so the order  *)
(* of timestamps is the order of identifiers: message i of `msgs` has      *)
(* identifier i and timestamp i.                                           *)
(***************************************************************************)
EXTENDS Integers, Sequences, FiniteSets, TLC

\* ------------------------------------------------------------------ bounds
MaxMsgs == 6          \* messages ever posted (remote identifiers 1..MaxMsgs)
MaxCmds == 1          \* commands waiting in the mpsc channel
MaxBacklog == 2       \* the same, where the order of the commands is examined

\* ------------------------------------------------------- program constants
CHANNEL_CAPACITY == 32      \* mpsc::channel::<Command>(32)
QUEUE_LIMIT_MIN == 5
QUEUE_LIMIT_MAX == 500

\* ------------------------------------------------------------ input sets
Channels == {1}
ChannelPair == {1, 2}
Users == {1}
NoUser == 0                              \* Option<UserId>::None
ConfigureInputs == {4, 5, 6, 501}        \* the integer given to /configure
InitHistories == {MaxMsgs - 1}           \* messages already in channel 1 at start
Pinnable == {2}                          \* the messages users pin and unpin
PinnablePair == {1, 2}
UserDeletable == {2}                     \* the messages users delete

VARIABLES
    msgs,            \* remote: msgs[i] = [channel, st], st in live/pinned/gone
    cmdq,            \* the mpsc channel: commands sent and not yet received
    channel_queues,  \* MessageManager.channel_queues: channel -> CappedQueue
    database,        \* MessageManager.database is Some
    channel_limits,  \* persisted relation channel_limits: channel -> limit
    pc,              \* where the actor task is: idle, scan, pins, init, dead
    cur,             \* the command the actor is in the middle of, if any
    todo,            \* init: rows of channel_limits still to replay
    exit_status,     \* 0 while the process runs, else the status of exit()
    \* what the latest step did to the outside (empty when it did nothing):
    handled,         \* the command the actor's step belongs to
    deletes,         \* the delete requests it sent, in order
    dbcalls,         \* the persisted-store writes it executed, in order
    reply,           \* the follow-up text it sent to the requester
    response         \* the text main.rs answered an interaction with directly

vars == <<msgs, cmdq, channel_queues, database, channel_limits, pc, cur, todo,
          exit_status, handled, deletes, dbcalls, reply, response>>

\* ------------------------------------------------------------- sequences
Range(s) == {s[i] : i \in 1..Len(s)}

Min(a, b) == IF a < b THEN a ELSE b

\* VecDeque::retain(|message| !ids.contains(&message.id))
Without(s, ids) == SelectSeq(s, LAMBDA x : x \notin ids)

\* every ordering of the finite set S
Orders(S) ==
    {s \in [1..Cardinality(S) -> S] : \A i, j \in 1..Cardinality(S) : s[i] = s[j] => i = j}

timestamp(m) == m

RECURSIVE InsertAfterOlder(_, _)
InsertAfterOlder(s, m) ==
    IF s = <<>> THEN <<m>>
    ELSE IF timestamp(Head(s)) <= timestamp(m)
         THEN <<Head(s)>> \o InsertAfterOlder(Tail(s), m)
         ELSE <<m>> \o s

\* Vec::sort_by(|a, b| a.timestamp.cmp(&b.timestamp)): a stable sort
RECURSIVE sort_by_timestamp(_)
sort_by_timestamp(s) ==
    IF s = <<>> THEN <<>>
    ELSE InsertAfterOlder(sort_by_timestamp(SubSeq(s, 1, Len(s) - 1)), s[Len(s)])

\* ---------------------------------------------------------------- remote
Posted == 1..Len(msgs)

\* channel.messages_iter(): the channel's messages, newest first
RECURSIVE Descending(_)
Descending(S) ==
    IF S = {} THEN <<>>
    ELSE LET m == CHOOSE x \in S : \A y \in S : y <= x
         IN <<m>> \o Descending(S \ {m})

History(c) == Descending({m \in Posted : msgs[m].channel = c /\ msgs[m].st # "gone"})

\* channel.pins(): the channel's pinned messages
RemotePins(c) == {m \in Posted : msgs[m].channel = c /\ msgs[m].st = "pinned"}

\* Message::delete succeeded for the messages of `ok`
AfterDeletes(ok) ==
    [m \in Posted |-> IF m \in ok THEN [msgs[m] EXCEPT !.st = "gone"] ELSE msgs[m]]

\* the delete requests that can succeed: the message still exists
Deletable(ids) == {m \in Range(ids) : msgs[m].st # "gone"}

\* ---------------------------------------------------------- CappedQueue
CappedQueue(q, p, l) == [queue |-> q, pins |-> p, limit |-> l]

Monitored == DOMAIN channel_queues

\* HashMap::insert / HashMap::remove
MapInsert(map, k, v) == [x \in DOMAIN map \cup {k} |-> IF x = k THEN v ELSE map[x]]
MapRemove(map, k) == [x \in DOMAIN map \ {k} |-> map[x]]

\* while queue.len() > keep { pop_front(); delete } : what is left, what was popped
RECURSIVE PopFront(_, _, _)
PopFront(q, keep, popped) ==
    IF Len(q) > keep /\ q # <<>>
    THEN PopFront(Tail(q), keep, Append(popped, Head(q)))
    ELSE [queue |-> q, deleted |-> popped]

\* insert_message with `while queue.len() > limit`: evicts one message too late
insert_message_late(cq, m, push_back) ==
    LET ev == PopFront(cq.queue, cq.limit, <<>>)
    IN [cq |-> [cq EXCEPT !.queue = IF push_back THEN Append(ev.queue, m)
                                     ELSE <<m>> \o ev.queue],
        deleted |-> ev.deleted]

\* insert_message with pop_back for pop_front: evicts the newest message
insert_message_newest(cq, m, push_back) ==
    LET keep == Min(Len(cq.queue), cq.limit - 1)
        kept == SubSeq(cq.queue, 1, keep)
    IN [cq |-> [cq EXCEPT !.queue = IF push_back THEN Append(kept, m) ELSE <<m>> \o kept],
        deleted |-> [i \in 1..(Len(cq.queue) - keep) |-> cq.queue[Len(cq.queue) + 1 - i]]]

\* MessageManager::insert_message on a channel that has a queue
insert_message(cq, m, push_back) ==
    LET ev == PopFront(cq.queue, cq.limit - 1, <<>>)
    IN [cq |-> [cq EXCEPT !.queue = IF push_back THEN Append(ev.queue, m)
                                     ELSE <<m>> \o ev.queue],
        deleted |-> ev.deleted]

\* MessageManager::remove_message on a channel that has a queue
remove_message(cq, m) ==
    [cq EXCEPT !.queue = Without(cq.queue, {m}), !.pins = Without(cq.pins, {m})]

\* MessageManager::insert_pin on a channel that has a queue
insert_pin(cq, m) ==
    IF cq.pins = <<>> THEN [cq EXCEPT !.pins = <<m>>]
    ELSE LET newer == {i \in 1..Len(cq.pins) : timestamp(cq.pins[i]) > timestamp(m)}
         IN IF newer = {} THEN [cq EXCEPT !.pins = Append(cq.pins, m)]
            ELSE LET index == CHOOSE i \in newer : \A j \in newer : i <= j
                 IN [cq EXCEPT !.pins = SubSeq(cq.pins, 1, index - 1) \o <<m>>
                                          \o SubSeq(cq.pins, index, Len(cq.pins))]

RECURSIVE insert_pins(_, _)
insert_pins(cq, pinned_messages) ==
    IF pinned_messages = <<>> THEN cq
    ELSE insert_pins(insert_pin(cq, Head(pinned_messages)), Tail(pinned_messages))

\* on_pins_updated with `while cq.queue.len() >= cq.limit`: one eviction more
\* than the limit asks for
on_pins_updated_eager(cq, updated_pins) ==
    LET removed_pins == Without(cq.pins, Range(updated_pins))
        added_pins == Range(updated_pins) \ Range(cq.pins)
        retained == Without(cq.queue, added_pins)
        temporary == sort_by_timestamp(removed_pins \o retained)
        ev == PopFront(temporary, cq.limit - 1, <<>>)
    IN [cq |-> [cq EXCEPT !.queue = ev.queue, !.pins = updated_pins],
        deleted |-> ev.deleted]

\* on_pins_updated that extends cq.pins with the added pins instead of
\* replacing it by the snapshot: a removed pin stays in the local list
on_pins_updated_extend(cq, updated_pins) ==
    LET removed_pins == Without(cq.pins, Range(updated_pins))
        added_pins == Range(updated_pins) \ Range(cq.pins)
        retained == Without(cq.queue, added_pins)
        temporary == sort_by_timestamp(removed_pins \o retained)
        ev == PopFront(temporary, cq.limit, <<>>)
    IN [cq |-> [cq EXCEPT !.queue = ev.queue,
                          !.pins = cq.pins \o Without(updated_pins, Range(cq.pins))],
        deleted |-> ev.deleted]

\* MessageManager::on_pins_updated once channel.pins() returned updated_pins
on_pins_updated(cq, updated_pins) ==
    LET removed_pins == Without(cq.pins, Range(updated_pins))
        added_pins == Range(updated_pins) \ Range(cq.pins)
        retained == Without(cq.queue, added_pins)
        temporary == sort_by_timestamp(removed_pins \o retained)
        ev == PopFront(temporary, cq.limit, <<>>)
    IN [cq |-> [cq EXCEPT !.queue = ev.queue, !.pins = updated_pins],
        deleted |-> ev.deleted]

\* the scan with a pinned message counted like any other
RECURSIVE scan_history_counting(_, _, _, _, _)
scan_history_counting(cq, history, message_count, new_limit, deleted) ==
    IF history = <<>> THEN [cq |-> cq, deleted |-> deleted]
    ELSE LET msg == Head(history)
         IN IF msg.pinned
            THEN scan_history_counting(cq, Tail(history), message_count + 1, new_limit,
                                       deleted)
            ELSE IF message_count < new_limit
                 THEN LET r == insert_message(cq, msg.id, FALSE)
                      IN scan_history_counting(r.cq, Tail(history), message_count + 1,
                                               new_limit, deleted \o r.deleted)
                 ELSE scan_history_counting(cq, Tail(history), message_count + 1,
                                            new_limit, Append(deleted, msg.id))

\* update_limit, first creation: the loop over messages_iter().  `history` is
\* what the stream yielded before it ended (or failed), newest first.
RECURSIVE scan_history(_, _, _, _, _)
scan_history(cq, history, message_count, new_limit, deleted) ==
    IF history = <<>> THEN [cq |-> cq, deleted |-> deleted]
    ELSE LET msg == Head(history)
         IN IF msg.pinned
            THEN scan_history(cq, Tail(history), message_count, new_limit, deleted)
            ELSE IF message_count < new_limit
                 THEN LET r == insert_message(cq, msg.id, FALSE)
                      IN scan_history(r.cq, Tail(history), message_count + 1, new_limit,
                                      deleted \o r.deleted)
                 ELSE scan_history(cq, Tail(history), message_count + 1, new_limit,
                                   Append(deleted, msg.id))

\* resize with pop_back for pop_front when the limit shrinks
resize_newest(cq, new_limit) ==
    IF cq.limit = new_limit THEN [cq |-> cq, deleted |-> <<>>, text |-> "already"]
    ELSE IF cq.limit < new_limit
         THEN [cq |-> [cq EXCEPT !.limit = new_limit], deleted |-> <<>>,
               text |-> "increased"]
         ELSE LET keep == Min(Len(cq.queue), new_limit)
              IN [cq |-> [cq EXCEPT !.queue = SubSeq(cq.queue, 1, keep), !.limit = new_limit],
                  deleted |-> [i \in 1..(Len(cq.queue) - keep) |->
                                  cq.queue[Len(cq.queue) + 1 - i]],
                  text |-> "decreased"]

\* resize that rebuilds the deque when the limit grows and loses the pins
resize_rebuild(cq, new_limit) ==
    IF cq.limit = new_limit THEN [cq |-> cq, deleted |-> <<>>, text |-> "already"]
    ELSE IF cq.limit < new_limit
         THEN [cq |-> CappedQueue(cq.queue, <<>>, new_limit), deleted |-> <<>>,
               text |-> "increased"]
         ELSE LET remaining_messages ==
                      IF Len(cq.queue) > new_limit THEN Len(cq.queue) - new_limit ELSE 0
                  ev == PopFront(cq.queue, Len(cq.queue) - remaining_messages, <<>>)
              IN [cq |-> [cq EXCEPT !.queue = ev.queue, !.limit = new_limit],
                  deleted |-> ev.deleted, text |-> "decreased"]

\* update_limit on a channel that has a queue, after update_db: lines 376-408
resize(cq, new_limit) ==
    IF cq.limit = new_limit THEN [cq |-> cq, deleted |-> <<>>, text |-> "already"]
    ELSE IF cq.limit < new_limit
         THEN [cq |-> [cq EXCEPT !.limit = new_limit], deleted |-> <<>>,
               text |-> "increased"]
         ELSE LET remaining_messages ==
                      IF Len(cq.queue) > new_limit THEN Len(cq.queue) - new_limit ELSE 0
                  ev == PopFront(cq.queue, Len(cq.queue) - remaining_messages, <<>>)
              IN [cq |-> [cq EXCEPT !.queue = ev.queue, !.limit = new_limit],
                  deleted |-> ev.deleted, text |-> "decreased"]

\* ------------------------------------------------------- persisted store
DbOutcomes == {"ok", "fail1", "fail2"}   \* which statement's execute() fails, if any

\* update_db (lines 299-319): INSERT OR REPLACE into channel_limits, then the
\* audit INSERT.  Both results are unwrapped and the user is expected, so a
\* failed statement or a missing user panics the actor task.
update_db(c, new_limit, user_id, dbres) ==
    IF ~database
    THEN [limits |-> channel_limits, calls |-> <<>>, panicked |-> FALSE]
    ELSE IF dbres = "fail1"
         THEN [limits |-> channel_limits, calls |-> <<>>, panicked |-> TRUE]
         ELSE LET upsert == [op |-> "upsert", channel |-> c, limit |-> new_limit,
                             user |-> NoUser]
                  audit == [op |-> "audit", channel |-> c, limit |-> new_limit,
                            user |-> user_id]
                  stored == MapInsert(channel_limits, c, new_limit)
              IN IF user_id = NoUser \/ dbres = "fail2"
                 THEN [limits |-> stored, calls |-> <<upsert>>, panicked |-> TRUE]
                 ELSE [limits |-> stored, calls |-> <<upsert, audit>>, panicked |-> FALSE]

\* ---------------------------------------------------------------- state
Command(t, c, a, u) == [type |-> t, channel |-> c, arg |-> a, user |-> u]

NoCommand == Command("none", 0, 0, NoUser)

StoredLimits == {l \in ConfigureInputs : QUEUE_LIMIT_MIN <= l /\ l <= QUEUE_LIMIT_MAX}

\* The process has just started.  The channel holds the messages of an earlier
\* time and channel_limits the rows an earlier run of the program left.
Init ==
    /\ msgs \in {[i \in 1..h |-> [channel |-> 1, st |-> "live"]] : h \in InitHistories}
    /\ cmdq = <<>>
    /\ channel_queues = <<>>
    /\ database = FALSE
    /\ channel_limits \in UNION {[S -> StoredLimits] : S \in SUBSET Channels}
    /\ pc = "idle"
    /\ cur = NoCommand
    /\ todo = <<>>
    /\ exit_status = 0
    /\ handled = NoCommand
    /\ deletes = <<>>
    /\ dbcalls = <<>>
    /\ reply = ""
    /\ response = ""

\* the process runs and the actor task has not panicked
Running == exit_status = 0 /\ pc # "dead"

\* a step of the users or of main.rs that sends nothing to the remote, the
\* persisted store or a requester
Silent ==
    /\ handled' = NoCommand
    /\ deletes' = <<>>
    /\ dbcalls' = <<>>
    /\ reply' = ""
    /\ response' = ""

\* Sender::send: waits while the channel is full
Send(cmd, room) ==
    /\ Len(cmdq) < Min(CHANNEL_CAPACITY, room)
    /\ cmdq' = Append(cmdq, cmd)

\* ------------------------------------------------- environment: the users
\* a user posts a message; the gateway delivers it to Bot::message
message(c, room) ==
    /\ Running
    /\ Len(msgs) < MaxMsgs
    /\ msgs' = Append(msgs, [channel |-> c, st |-> "live"])
    /\ Send(Command("MessageReceived", c, Len(msgs) + 1, NoUser), room)
    /\ Silent
    /\ UNCHANGED <<channel_queues, database, channel_limits, pc, cur, todo, exit_status>>

UserDelete(m) ==
    /\ Running
    /\ msgs[m].st # "gone"
    /\ msgs' = [msgs EXCEPT ![m].st = "gone"]
    /\ Silent
    /\ UNCHANGED <<cmdq, channel_queues, database, channel_limits, pc, cur, todo,
                   exit_status>>

Pin(m) ==
    /\ Running
    /\ msgs[m].st = "live"
    /\ msgs' = [msgs EXCEPT ![m].st = "pinned"]
    /\ Silent
    /\ UNCHANGED <<cmdq, channel_queues, database, channel_limits, pc, cur, todo,
                   exit_status>>

Unpin(m) ==
    /\ Running
    /\ msgs[m].st = "pinned"
    /\ msgs' = [msgs EXCEPT ![m].st = "live"]
    /\ Silent
    /\ UNCHANGED <<cmdq, channel_queues, database, channel_limits, pc, cur, todo,
                   exit_status>>

\* --------------------------------------- main.rs: Bot::interaction_create
\* "configure" with an integer inside QUEUE_LIMIT_MIN..QUEUE_LIMIT_MAX: the
\* interaction is deferred (no text) and SetLimit is sent
configure(c, u, limit, room) ==
    /\ Running
    /\ limit >= QUEUE_LIMIT_MIN /\ limit <= QUEUE_LIMIT_MAX
    /\ Send(Command("SetLimit", c, limit, u), room)
    /\ Silent
    /\ UNCHANGED <<msgs, channel_queues, database, channel_limits, pc, cur, todo,
                   exit_status>>

remove(c, u, room) ==
    /\ Running
    /\ Send(Command("RemoveLimit", c, 0, u), room)
    /\ Silent
    /\ UNCHANGED <<msgs, channel_queues, database, channel_limits, pc, cur, todo,
                   exit_status>>

status(c, u, room) ==
    /\ Running
    /\ Send(Command("GetStatus", c, 0, u), room)
    /\ Silent
    /\ UNCHANGED <<msgs, channel_queues, database, channel_limits, pc, cur, todo,
                   exit_status>>

\* the value given to the "messages" option: an integer or something else
ConfigureOptions ==
    {[integer |-> TRUE, value |-> v] : v \in ConfigureInputs \cup {QUEUE_LIMIT_MAX}}
        \cup {[integer |-> FALSE, value |-> 0]}

\* commands::configure::run: Ok(i) for an integer option, else Err(())
run(option) == [ok |-> option.integer, limit |-> option.value]

\* reply(): main.rs answers the interaction itself; nothing is sent
Rejected(text) ==
    /\ handled' = NoCommand
    /\ deletes' = <<>>
    /\ dbcalls' = <<>>
    /\ reply' = ""
    /\ response' = text
    /\ UNCHANGED <<msgs, cmdq, channel_queues, database, channel_limits, pc, cur, todo,
                   exit_status>>

\* the "configure" branch without the test against QUEUE_LIMIT_MIN
interaction_configure_no_minimum(c, u, option, room) ==
    /\ Running
    /\ IF ~run(option).ok
       THEN Rejected("Please choose a valid number")
       ELSE IF run(option).limit <= QUEUE_LIMIT_MAX
            THEN /\ Send(Command("SetLimit", c, run(option).limit, u), room)
                 /\ Silent
                 /\ UNCHANGED <<msgs, channel_queues, database, channel_limits, pc, cur,
                                todo, exit_status>>
            ELSE Rejected("The limit should be between 5 and 500")

\* the "configure" branch with `||` for `&&`: every integer is accepted
interaction_configure_any(c, u, option, room) ==
    /\ Running
    /\ IF ~run(option).ok
       THEN Rejected("Please choose a valid number")
       ELSE IF run(option).limit >= QUEUE_LIMIT_MIN \/ run(option).limit <= QUEUE_LIMIT_MAX
            THEN /\ Send(Command("SetLimit", c, run(option).limit, u), room)
                 /\ Silent
                 /\ UNCHANGED <<msgs, channel_queues, database, channel_limits, pc, cur,
                                todo, exit_status>>
            ELSE Rejected("The limit should be between 5 and 500")

\* Bot::interaction_create, "configure", whatever the option holds
interaction_configure(c, u, option, room) ==
    /\ Running
    /\ IF ~run(option).ok
       THEN Rejected("Please choose a valid number")
       ELSE IF run(option).limit >= QUEUE_LIMIT_MIN /\ run(option).limit <= QUEUE_LIMIT_MAX
            THEN configure(c, u, run(option).limit, room)
            ELSE Rejected("The limit should be between 5 and 500")

\* Bot::ready, once per run: the gateway's READY
InitializeSent ==
    \/ database
    \/ \E i \in 1..Len(cmdq) : cmdq[i].type = "Initialize"
    \/ cur.type = "Initialize"

ready(room) ==
    /\ Running
    /\ ~InitializeSent
    /\ Send(Command("Initialize", 0, 0, NoUser), room)
    /\ Silent
    /\ UNCHANGED <<msgs, channel_queues, database, channel_limits, pc, cur, todo,
                   exit_status>>

\* the "killswitch" branch without its exit(1): the reply only
killswitch_replies(u) ==
    /\ Running
    /\ exit_status' = exit_status
    /\ handled' = NoCommand
    /\ deletes' = <<>>
    /\ dbcalls' = <<>>
    /\ reply' = ""
    /\ response' = "Killswitch flipped, bye bye~"
    /\ UNCHANGED <<msgs, cmdq, channel_queues, database, channel_limits, pc, cur, todo>>

\* "killswitch": reply, then exit(1)
killswitch(u) ==
    /\ Running
    /\ exit_status' = 1
    /\ handled' = NoCommand
    /\ deletes' = <<>>
    /\ dbcalls' = <<>>
    /\ reply' = ""
    /\ response' = "Killswitch flipped, bye bye~"
    /\ UNCHANGED <<msgs, cmdq, channel_queues, database, channel_limits, pc, cur, todo>>

\* ---------------------------------- gateway events main.rs does not handle
\* a message was deleted: Command::MessageDeleted
message_delete(m, room) ==
    /\ Running
    /\ msgs[m].st = "gone"
    /\ Send(Command("MessageDeleted", msgs[m].channel, m, NoUser), room)
    /\ Silent
    /\ UNCHANGED <<msgs, channel_queues, database, channel_limits, pc, cur, todo,
                   exit_status>>

\* a channel's pins changed: Command::ChannelPinsUpdated
channel_pins_update(c, room) ==
    /\ Running
    /\ Send(Command("ChannelPinsUpdated", c, 0, NoUser), room)
    /\ Silent
    /\ UNCHANGED <<msgs, channel_queues, database, channel_limits, pc, cur, todo,
                   exit_status>>

\* ------------------------------------- msgman.rs: the actor task's loop
\* a receiver that returns the newest command
ReceiveNewest(type) ==
    /\ Running
    /\ pc = "idle"
    /\ cmdq # <<>>
    /\ cmdq[Len(cmdq)].type = type
    /\ cmdq' = SubSeq(cmdq, 1, Len(cmdq) - 1)
    /\ handled' = cmdq[Len(cmdq)]
    /\ response' = ""
    /\ UNCHANGED exit_status

\* receiver.recv() returned the oldest command
Receive(type) ==
    /\ Running
    /\ pc = "idle"
    /\ cmdq # <<>>
    /\ Head(cmdq).type = type
    /\ cmdq' = Tail(cmdq)
    /\ handled' = Head(cmdq)
    /\ response' = ""
    /\ UNCHANGED exit_status

\* a later step of the command in `cur`
Continue(at) ==
    /\ Running
    /\ pc = at
    /\ handled' = cur
    /\ response' = ""
    /\ UNCHANGED <<cmdq, exit_status>>

\* the delete requests of `ids` are sent; each succeeds or fails
SendDeletes(ids) ==
    /\ deletes' = ids
    /\ \E ok \in SUBSET Deletable(ids) : msgs' = AfterDeletes(ok)

\* MessageReceived with a queue created for a channel that has none
RecvMessageReceived_creating ==
    /\ Receive("MessageReceived")
    /\ LET c == Head(cmdq).channel
           m == Head(cmdq).arg
       IN IF c \in Monitored
          THEN LET r == insert_message(channel_queues[c], m, TRUE)
               IN /\ channel_queues' = [channel_queues EXCEPT ![c] = r.cq]
                  /\ SendDeletes(r.deleted)
          ELSE /\ deletes' = <<>>
               /\ channel_queues' =
                      MapInsert(channel_queues, c, CappedQueue(<<m>>, <<>>, QUEUE_LIMIT_MIN))
               /\ UNCHANGED msgs
    /\ dbcalls' = <<>>
    /\ reply' = ""
    /\ UNCHANGED <<database, channel_limits, pc, cur, todo>>

\* MessageReceived => insert_message(message, true)
RecvMessageReceived ==
    /\ Receive("MessageReceived")
    /\ LET c == Head(cmdq).channel
           m == Head(cmdq).arg
       IN IF c \in Monitored
          THEN LET r == insert_message(channel_queues[c], m, TRUE)
               IN /\ channel_queues' = [channel_queues EXCEPT ![c] = r.cq]
                  /\ SendDeletes(r.deleted)
          ELSE /\ deletes' = <<>>
               /\ UNCHANGED <<msgs, channel_queues>>
    /\ dbcalls' = <<>>
    /\ reply' = ""
    /\ UNCHANGED <<database, channel_limits, pc, cur, todo>>

\* MessageDeleted => remove_message
RecvMessageDeleted ==
    /\ Receive("MessageDeleted")
    /\ LET c == Head(cmdq).channel
           m == Head(cmdq).arg
       IN channel_queues' =
              IF c \in Monitored
              THEN [channel_queues EXCEPT ![c] = remove_message(channel_queues[c], m)]
              ELSE channel_queues
    /\ deletes' = <<>>
    /\ dbcalls' = <<>>
    /\ reply' = ""
    /\ UNCHANGED <<msgs, database, channel_limits, pc, cur, todo>>

\* ChannelPinsUpdated => on_pins_updated; channel.pins() fails or returns the
\* pinned messages in the order the remote chooses
RecvChannelPinsUpdated ==
    /\ Receive("ChannelPinsUpdated")
    /\ LET c == Head(cmdq).channel
       IN IF c \in Monitored
          THEN \E fetched \in BOOLEAN, updated_pins \in Orders(RemotePins(c)) :
                  IF fetched
                  THEN LET r == on_pins_updated(channel_queues[c], updated_pins)
                       IN /\ channel_queues' = [channel_queues EXCEPT ![c] = r.cq]
                          /\ SendDeletes(r.deleted)
                  ELSE /\ deletes' = <<>>
                       /\ UNCHANGED <<msgs, channel_queues>>
          ELSE /\ deletes' = <<>>
               /\ UNCHANGED <<msgs, channel_queues>>
    /\ dbcalls' = <<>>
    /\ reply' = ""
    /\ UNCHANGED <<database, channel_limits, pc, cur, todo>>

\* GetStatus => get_status, reply_deferred
RecvGetStatus ==
    /\ Receive("GetStatus")
    /\ deletes' = <<>>
    /\ dbcalls' = <<>>
    /\ reply' = "status"
    /\ UNCHANGED <<msgs, channel_queues, database, channel_limits, pc, cur, todo>>

\* remove_limit that writes the audit record before it looks for the queue
RecvRemoveLimit_audited ==
    /\ Receive("RemoveLimit")
    /\ deletes' = <<>>
    /\ LET c == Head(cmdq).channel
           u == Head(cmdq).user
           delete == [op |-> "delete", channel |-> c, limit |-> 0, user |-> NoUser]
           audit == [op |-> "audit", channel |-> c, limit |-> 0, user |-> u]
       IN IF c \notin Monitored
          THEN /\ reply' = "no limit"
               /\ dbcalls' = IF database THEN <<audit>> ELSE <<>>
               /\ UNCHANGED <<channel_queues, channel_limits, pc, cur>>
          ELSE /\ channel_queues' = MapRemove(channel_queues, c)
               /\ IF ~database
                  THEN /\ reply' = "removed"
                       /\ dbcalls' = <<>>
                       /\ UNCHANGED <<channel_limits, pc, cur>>
                  ELSE \E dbres \in DbOutcomes :
                          /\ channel_limits' = IF dbres = "fail1" THEN channel_limits
                                               ELSE MapRemove(channel_limits, c)
                          /\ dbcalls' = CASE dbres = "fail1" -> <<>>
                                          [] dbres = "fail2" -> <<delete>>
                                          [] OTHER -> <<delete, audit>>
                          /\ pc' = IF dbres = "ok" THEN "idle" ELSE "dead"
                          /\ cur' = IF dbres = "ok" THEN NoCommand ELSE Head(cmdq)
                          /\ reply' = IF dbres = "ok" THEN "removed" ELSE ""
    /\ UNCHANGED <<msgs, database, todo>>

\* RemoveLimit => remove_limit, reply_deferred.  Both statements' results are
\* unwrapped: a failed one panics the actor task.
RecvRemoveLimit ==
    /\ Receive("RemoveLimit")
    /\ deletes' = <<>>
    /\ LET c == Head(cmdq).channel
           u == Head(cmdq).user
           delete == [op |-> "delete", channel |-> c, limit |-> 0, user |-> NoUser]
           audit == [op |-> "audit", channel |-> c, limit |-> 0, user |-> u]
       IN IF c \notin Monitored
          THEN /\ reply' = "no limit"
               /\ dbcalls' = <<>>
               /\ UNCHANGED <<channel_queues, channel_limits, pc, cur>>
          ELSE /\ channel_queues' = MapRemove(channel_queues, c)
               /\ IF ~database
                  THEN /\ reply' = "removed"
                       /\ dbcalls' = <<>>
                       /\ UNCHANGED <<channel_limits, pc, cur>>
                  ELSE \E dbres \in DbOutcomes :
                          /\ channel_limits' = IF dbres = "fail1" THEN channel_limits
                                               ELSE MapRemove(channel_limits, c)
                          /\ dbcalls' = CASE dbres = "fail1" -> <<>>
                                          [] dbres = "fail2" -> <<delete>>
                                          [] OTHER -> <<delete, audit>>
                          /\ pc' = IF dbres = "ok" THEN "idle" ELSE "dead"
                          /\ cur' = IF dbres = "ok" THEN NoCommand ELSE Head(cmdq)
                          /\ reply' = IF dbres = "ok" THEN "removed" ELSE ""
    /\ UNCHANGED <<msgs, database, todo>>

\* update_limit, no queue yet (lines 320-323): the queue is created empty
\* before the history is asked for
CreateQueue(cmd) ==
    /\ channel_queues' =
           MapInsert(channel_queues, cmd.channel, CappedQueue(<<>>, <<>>, cmd.arg))
    /\ pc' = "scan"
    /\ cur' = cmd
    /\ deletes' = <<>>
    /\ dbcalls' = <<>>
    /\ reply' = ""
    /\ UNCHANGED <<msgs, channel_limits>>

\* where update_limit returns to: the loop of init, or the actor's loop
Return(cmd) == IF cmd.type = "Initialize" THEN "init" ELSE "idle"

\* update_limit on a channel that has a queue (lines 374-408).  The debug!
\* of line 384 subtracts the deque's capacity, which is at least the limit it
\* was created with, from new_limit: a build that checks overflow and logs at
\* debug level panics there when the capacity is the larger.
UpdateExisting(cmd) ==
    \E dbres \in DbOutcomes, overflow \in BOOLEAN :
        LET c == cmd.channel
            db == update_db(c, cmd.arg, cmd.user, dbres)
            r == resize(channel_queues[c], cmd.arg)
            panics == db.panicked \/ (overflow /\ r.text = "increased")
        IN /\ channel_limits' = db.limits
           /\ dbcalls' = db.calls
           /\ IF panics
              THEN /\ pc' = "dead"
                   /\ cur' = cmd
                   /\ deletes' = <<>>
                   /\ reply' = ""
                   /\ UNCHANGED <<msgs, channel_queues>>
              ELSE /\ channel_queues' = [channel_queues EXCEPT ![c] = r.cq]
                   /\ SendDeletes(r.deleted)
                   /\ pc' = Return(cmd)
                   /\ cur' = IF cmd.type = "Initialize" THEN cmd ELSE NoCommand
                   /\ reply' = IF cmd.type = "Initialize" THEN "" ELSE r.text

\* SetLimit => update_limit(channel, limit, false, Some(user)), reply_deferred
RecvSetLimit ==
    /\ Receive("SetLimit")
    /\ IF Head(cmdq).channel \notin Monitored
       THEN CreateQueue(Head(cmdq))
       ELSE UpdateExisting(Head(cmdq))
    /\ UNCHANGED <<database, todo>>

\* update_limit, first creation (lines 326-351): messages_iter() yields the
\* channel's messages newest first, each with its pinned flag.  It asks the
\* remote for 100 messages at a time, so it can fail before the first message
\* and after every hundredth; a failure returns its text at once.
ScanHistory ==
    /\ Continue("scan")
    /\ LET c == cur.channel
           all_messages == [i \in 1..Len(History(c)) |->
                               [id |-> History(c)[i],
                                pinned |-> msgs[History(c)[i]].st = "pinned"]]
       IN \E yielded \in 0..Len(all_messages), failed \in BOOLEAN :
             /\ IF failed THEN yielded % 100 = 0 ELSE yielded = Len(all_messages)
             /\ LET r == scan_history(channel_queues[c], SubSeq(all_messages, 1, yielded),
                                      0, cur.arg, <<>>)
                IN /\ channel_queues' = [channel_queues EXCEPT ![c] = r.cq]
                   /\ SendDeletes(r.deleted)
             /\ pc' = IF failed THEN Return(cur) ELSE "pins"
             /\ cur' = IF failed /\ cur.type # "Initialize" THEN NoCommand ELSE cur
             /\ reply' = IF failed /\ cur.type # "Initialize" THEN "error" ELSE ""
    /\ dbcalls' = <<>>
    /\ UNCHANGED <<todo, database, channel_limits>>

\* update_limit, first creation (lines 353-371): channel.pins(), insert_pin for
\* each, then update_db unless this is the replay of init
FetchPins ==
    /\ Continue("pins")
    /\ LET c == cur.channel
           is_init == cur.type = "Initialize"
       IN \E fetched \in BOOLEAN, pinned_messages \in Orders(RemotePins(c)),
             dbres \in DbOutcomes :
             LET cq == IF fetched THEN insert_pins(channel_queues[c], pinned_messages)
                       ELSE channel_queues[c]
                 db == IF is_init
                       THEN [limits |-> channel_limits, calls |-> <<>>, panicked |-> FALSE]
                       ELSE update_db(c, cur.arg, cur.user, dbres)
             IN /\ channel_queues' = [channel_queues EXCEPT ![c] = cq]
                /\ channel_limits' = db.limits
                /\ dbcalls' = db.calls
                /\ pc' = IF db.panicked THEN "dead" ELSE Return(cur)
                /\ cur' = IF db.panicked \/ is_init THEN cur ELSE NoCommand
                /\ reply' = IF is_init \/ db.panicked THEN "" ELSE "created"
    /\ deletes' = <<>>
    /\ UNCHANGED <<msgs, todo, database>>

\* Initialize => init (lines 118-134): connect, migrate and read channel_limits,
\* each of which panics on failure
RecvInitialize ==
    /\ Receive("Initialize")
    /\ cur' = Head(cmdq)
    /\ \E connected \in BOOLEAN, lines \in Orders(DOMAIN channel_limits) :
          IF connected
          THEN /\ pc' = "init"
               /\ todo' = [i \in 1..Len(lines) |->
                              [channel |-> lines[i], limit |-> channel_limits[lines[i]]]]
          ELSE /\ pc' = "dead"
               /\ todo' = <<>>
    /\ deletes' = <<>>
    /\ dbcalls' = <<>>
    /\ reply' = ""
    /\ UNCHANGED <<msgs, channel_queues, database, channel_limits>>

\* init (lines 135-146): update_limit(channel, limit, true, None) for the next
\* row, or the end of the loop, where self.database is set
InitNext ==
    /\ Continue("init")
    /\ IF todo = <<>>
       THEN /\ database' = TRUE
            /\ pc' = "idle"
            /\ cur' = NoCommand
            /\ deletes' = <<>>
            /\ dbcalls' = <<>>
            /\ reply' = ""
            /\ UNCHANGED <<msgs, channel_queues, channel_limits, todo>>
       ELSE LET line == Command("Initialize", Head(todo).channel, Head(todo).limit, NoUser)
            IN /\ todo' = Tail(todo)
               /\ UNCHANGED database
               /\ IF line.channel \notin Monitored
                  THEN CreateQueue(line)
                  ELSE UpdateExisting(line)

\* ------------------------------------------------------- specifications
\* what the users do in the channels of C: post, delete the messages of D, pin
\* and unpin the messages of P.  `room` is how many commands may wait.
Environment(C, D, P, room) ==
    \/ \E c \in C : message(c, room)
    \/ \E m \in Posted \cap D : UserDelete(m)
    \/ \E m \in Posted \cap P : Pin(m)
    \/ \E m \in Posted \cap P : Unpin(m)

Requests(C, room) ==
    \/ \E c \in C, u \in Users, limit \in StoredLimits : configure(c, u, limit, room)
    \/ \E c \in C, u \in Users : remove(c, u, room)
    \/ ready(room)

\* the gateway's MESSAGE_DELETE and CHANNEL_PINS_UPDATE events, turned into the
\* Command variants the actor handles
Events(C, room) ==
    \/ \E m \in Posted : message_delete(m, room)
    \/ \E c \in C : channel_pins_update(c, room)

Actor ==
    \/ RecvInitialize
    \/ InitNext
    \/ RecvMessageReceived
    \/ RecvSetLimit
    \/ ScanHistory
    \/ FetchPins
    \/ RecvRemoveLimit

\* the actor fed every Command variant it handles
Next ==
    \/ Environment(Channels, UserDeletable, Pinnable, MaxCmds)
    \/ Requests(Channels, MaxCmds)
    \/ Events(Channels, MaxCmds)
    \/ Actor
    \/ RecvMessageDeleted
    \/ RecvChannelPinsUpdated

Spec == Init /\ [][Next]_vars

\* the same with two messages that can be pinned
NextPins ==
    \/ Environment(Channels, UserDeletable, PinnablePair, MaxCmds)
    \/ Requests(Channels, MaxCmds)
    \/ Events(Channels, MaxCmds)
    \/ Actor
    \/ RecvMessageDeleted
    \/ RecvChannelPinsUpdated

SpecPins == Init /\ [][NextPins]_vars

\* the program as built: main.rs has no handler for the gateway's delete and
\* pin events, so no MessageDeleted or ChannelPinsUpdated command is ever sent
NextMain ==
    \/ Environment(Channels, UserDeletable, PinnablePair, MaxCmds)
    \/ Requests(Channels, MaxCmds)
    \/ \E c \in Channels, u \in Users : status(c, u, MaxCmds)
    \/ Actor
    \/ RecvGetStatus

SpecMain == Init /\ [][NextMain]_vars

\* the program as built without /status and with one message that can be
\* pinned
NextBuilt ==
    \/ Environment(Channels, UserDeletable, Pinnable, MaxCmds)
    \/ Requests(Channels, MaxCmds)
    \/ Actor

\* the actor's steps other than the scan of a channel's history
ActorBesidesScan ==
    \/ RecvInitialize
    \/ InitNext
    \/ RecvMessageReceived
    \/ RecvSetLimit
    \/ FetchPins
    \/ RecvRemoveLimit

\* Weak fairness of the actor.  ScanHistory is enabled exactly when the process
\* runs and the actor is at "scan", and it always leaves "scan", so its weak
\* fairness is written by that condition.
SpecBuiltFair ==
    /\ Init /\ [][NextBuilt]_vars
    /\ WF_vars(ActorBesidesScan)
    /\ []<>(pc # "scan" \/ exit_status # 0)

\* the program as built with a second channel and a longer backlog of
\* commands; the users only post, and ask for the smallest limit
NextOrder ==
    \/ \E c \in ChannelPair : message(c, MaxBacklog)
    \/ \E c \in ChannelPair, u \in Users : configure(c, u, QUEUE_LIMIT_MIN, MaxBacklog)
    \/ \E c \in Channels, u \in Users : remove(c, u, MaxBacklog)
    \/ ready(MaxBacklog)
    \/ Actor

SpecOrder == Init /\ [][NextOrder]_vars

\* the program as built, asked to configure with every kind of option; the
\* users only post
NextConfigure ==
    \/ \E c \in Channels : message(c, MaxCmds)
    \/ \E c \in Channels, u \in Users, option \in ConfigureOptions :
          interaction_configure(c, u, option, MaxCmds)
    \/ \E c \in Channels, u \in Users : remove(c, u, MaxCmds)
    \/ ready(MaxCmds)
    \/ Actor

SpecConfigure == Init /\ [][NextConfigure]_vars

\* the program as built with a user who flips the killswitch; the users only
\* post
NextKill ==
    \/ \E c \in Channels : message(c, MaxCmds)
    \/ Requests(Channels, MaxCmds)
    \/ \E u \in Users : killswitch(u)
    \/ Actor

SpecKill == Init /\ [][NextKill]_vars

\* two channels of which only the first is ever configured, and no pins; the
\* newest message can be deleted by its author as well
FrameDeletable == UserDeletable \cup {MaxMsgs}

NextFrame ==
    \/ \E c \in ChannelPair : message(c, MaxCmds)
    \/ \E m \in Posted \cap FrameDeletable : UserDelete(m)
    \/ Requests(Channels, MaxCmds)
    \/ Events(ChannelPair, MaxCmds)
    \/ Actor
    \/ RecvMessageDeleted
    \/ RecvChannelPinsUpdated

SpecFrame == Init /\ [][NextFrame]_vars

\* ----------------------------------------------------------------- claims
\* the step just taken is the actor receiving a command of this type
Received(type) == pc = "idle" /\ handled'.type = type

\* C1: in every state, every channel of the registry holds at most `limit`
\* messages in its queue, whatever commands the actor has applied.
QueueWithinLimit ==
    \A c \in Monitored : Len(channel_queues[c].queue) <= channel_queues[c].limit

\* a MessageReceived has just evicted from a full queue, which is full again
QueueWithinLimit_Witness ==
    /\ handled.type = "MessageReceived"
    /\ deletes # <<>>
    /\ \E c \in Monitored : Len(channel_queues[c].queue) = channel_queues[c].limit

\* C2: in every state, no channel has a message identifier both in its queue
\* and in its pins, also when the pin state of the remote changes between the
\* history scan and the pin fetch of a first-time set_limit.
QueuePinsDisjoint ==
    \A c \in Monitored :
        Range(channel_queues[c].queue) \cap Range(channel_queues[c].pins) = {}

\* C3: in every state, every channel's pins are in ascending order of
\* timestamp, after the insert_pin calls of the backfill and after a
\* reconciliation whose snapshot the remote delivered in any order.
PinsAscending ==
    \A c \in Monitored :
        \A i, j \in 1..Len(channel_queues[c].pins) :
            i < j => timestamp(channel_queues[c].pins[i]) <= timestamp(channel_queues[c].pins[j])

\* MessageReceived for m1..mn in this order, applied to cq
RECURSIVE insert_all(_, _, _)
insert_all(cq, ms, deleted) ==
    IF ms = <<>> THEN [cq |-> cq, deleted |-> deleted]
    ELSE LET r == insert_message(cq, Head(ms), TRUE)
         IN insert_all(r.cq, Tail(ms), deleted \o r.deleted)

MaxExcess == 2        \* the k of m1..m(limit+k)

\* C4: a MessageReceived for a monitored channel whose queue holds `limit`
\* messages deletes exactly the oldest one, with one delete request, and puts
\* the new message at the back, the others keeping their order (below the
\* limit it only appends); so m1..m(limit+k) inserted in order into an empty
\* queue evict m1..mk in order and leave the last `limit` messages.
InsertEvictsOldest ==
    [][Received("MessageReceived") /\ handled'.channel \in Monitored =>
          LET c == handled'.channel
              m == handled'.arg
              cq == channel_queues[c]
          IN /\ c \in DOMAIN channel_queues'
             /\ channel_queues'[c].pins = cq.pins
             /\ channel_queues'[c].limit = cq.limit
             /\ IF Len(cq.queue) = cq.limit
                THEN /\ channel_queues'[c].queue = Append(Tail(cq.queue), m)
                     /\ deletes' = <<Head(cq.queue)>>
                ELSE /\ channel_queues'[c].queue = Append(cq.queue, m)
                     /\ deletes' = <<>>
             /\ \A k \in 0..MaxExcess :
                    LET r == insert_all(CappedQueue(<<>>, <<>>, cq.limit),
                                        [i \in 1..(cq.limit + k) |-> i], <<>>)
                    IN /\ r.deleted = [i \in 1..k |-> i]
                       /\ r.cq.queue = [i \in 1..cq.limit |-> k + i]
    ]_vars

\* a MessageReceived has just evicted the oldest message of a full queue
InsertEvictsOldest_Witness ==
    /\ handled.type = "MessageReceived"
    /\ handled.channel \in Monitored
    /\ Len(deletes) = 1
    /\ LET cq == channel_queues[handled.channel]
       IN /\ Len(cq.queue) = cq.limit
          /\ cq.queue[Len(cq.queue)] = handled.arg
          /\ deletes[1] < cq.queue[1]

\* the snapshots channel.pins() can return for the two oldest messages
Snapshots == UNION {Orders(S) : S \in SUBSET (Posted \cap PinnablePair)}

\* C5: on_pins_updated run a second time on the same channel with the same
\* snapshot, and nothing in between, leaves queue, pins and limit as the first
\* run left them and sends no delete request.
ReconcileIdempotent ==
    \A c \in Monitored : \A updated_pins \in Snapshots :
        LET first == on_pins_updated(channel_queues[c], updated_pins)
            second == on_pins_updated(first.cq, updated_pins)
        IN second.cq = first.cq /\ second.deleted = <<>>

\* a reconciliation has just put an unpinned message back and evicted
ReconcileIdempotent_Witness ==
    /\ handled.type = "ChannelPinsUpdated"
    /\ handled.channel \in Monitored
    /\ deletes # <<>>
    /\ Len(channel_queues[handled.channel].queue) = channel_queues[handled.channel].limit

GrowChangesLimitOnly ==
    [][/\ Received("SetLimit")
       /\ handled'.channel \in Monitored
       /\ handled'.arg > channel_queues[handled'.channel].limit
       => LET c == handled'.channel
              cq == channel_queues[c]
          IN /\ c \in DOMAIN channel_queues'
             /\ channel_queues'[c].queue = cq.queue
             /\ channel_queues'[c].pins = cq.pins
             /\ deletes' = <<>>
             /\ msgs' = msgs
             /\ pc' # "dead" => channel_queues'[c].limit = handled'.arg
    ]_vars

\* a SetLimit has just raised the limit of a channel that has messages and pins
GrowChangesLimitOnly_Witness ==
    /\ handled.type = "SetLimit"
    /\ reply = "increased"
    /\ channel_queues[handled.channel].limit = handled.arg
    /\ Len(channel_queues[handled.channel].queue) = handled.arg - 1
    /\ channel_queues[handled.channel].pins # <<>>

\* C8: once RemoveLimit has completed on a channel that had a queue, the
\* channel is not in the registry, channel_limits has no row for it, and no
\* delete request was sent, also when Initialize has not been processed yet.
RemoveClearsBoth ==
    handled.type = "RemoveLimit" /\ reply = "removed"
        => /\ handled.channel \notin Monitored
           /\ handled.channel \notin DOMAIN channel_limits
           /\ deletes = <<>>

\* C9: a failure of a remote or persisted-store call is not shown to the
\* requester: the reply to a first-time SetLimit whose history listing failed
\* is the normal confirmation, sent after the pin fetch and the persistence.
FailureNotSurfaced ==
    handled.type = "SetLimit" /\ reply # "" => reply # "error"

\* C10: the commands leave the channel in the order they entered, one at a
\* time: the actor takes the oldest command and only when it is between
\* commands, and the registry changes only in steps of the command the actor
\* is applying, whatever channel the waiting commands are for.
OneCommandAtATime ==
    [][/\ \/ cmdq' = cmdq
          \/ cmdq # <<>> /\ cmdq' = Tail(cmdq)
          \/ cmdq' # <<>> /\ SubSeq(cmdq', 1, Len(cmdq') - 1) = cmdq
       /\ Len(cmdq') < Len(cmdq) => pc = "idle" /\ handled' = Head(cmdq)
       /\ pc # "idle" => Len(cmdq') >= Len(cmdq)
       /\ channel_queues' # channel_queues =>
              IF pc = "idle" THEN cmdq # <<>> /\ handled' = Head(cmdq) /\ cmdq' = Tail(cmdq)
              ELSE handled'.type = cur.type /\ cmdq' = cmdq
    ]_vars

\* the actor is waiting for the history of one channel while two commands,
\* the first for the other channel, wait in the channel
OneCommandAtATime_Witness ==
    /\ pc = "scan"
    /\ Len(cmdq) = 2
    /\ cmdq[1] # cmdq[2]
    /\ cmdq[1].channel \in ChannelPair \ {cur.channel}

\* C11: once a command has completed, channel_limits mirrors the registry: a
\* channel has a row exactly when it has a CappedQueue, and the row holds the
\* queue's limit.  Stated from the end of Initialize on, when the rows of an
\* earlier run have been replayed.
StoreMirrorsRegistry ==
    database /\ pc = "idle" /\ handled.type # "none"
        => /\ DOMAIN channel_limits = Monitored
           /\ \A c \in Monitored : channel_limits[c] = channel_queues[c].limit

\* C12: a configure request whose value is not an integer of 5..500 is
\* answered with a rejection and sends no SetLimit: the channel of commands,
\* the registry, the remote and the persisted store are unchanged; a value of
\* 5..500 sends exactly one SetLimit carrying that value.
ConfigureValidates ==
    [][\A c \in Channels, u \in Users, option \in ConfigureOptions :
          interaction_configure(c, u, option, MaxCmds) =>
              IF option.integer /\ 5 <= option.value /\ option.value <= 500
              THEN /\ cmdq' = Append(cmdq, Command("SetLimit", c, option.value, u))
                   /\ response' = ""
              ELSE /\ response' \in {"Please choose a valid number",
                                     "The limit should be between 5 and 500"}
                   /\ UNCHANGED <<cmdq, channel_queues, channel_limits, database, msgs>>
                   /\ deletes' = <<>> /\ dbcalls' = <<>>
    ]_vars

\* an out-of-range value has just been rejected while a channel is monitored
ConfigureValidates_Witness ==
    /\ response = "The limit should be between 5 and 500"
    /\ Monitored # {}
    /\ cmdq # <<>>

\* C13: a reconciliation whose snapshot is the known pins plus one message
\* that is in the queue takes that message out of the queue and has it in
\* pins; the queue is one shorter, its other entries are kept, and no delete
\* request is sent.
PinnedLeavesQueue ==
    [][Received("ChannelPinsUpdated") /\ handled'.channel \in Monitored =>
          LET c == handled'.channel
              cq == channel_queues[c]
              after == channel_queues'[c]
          IN \A m \in Range(cq.queue) \ Range(cq.pins) :
                Range(after.pins) = Range(cq.pins) \cup {m} =>
                    /\ m \notin Range(after.queue)
                    /\ Len(after.queue) = Len(cq.queue) - 1
                    /\ after.queue = Without(cq.queue, {m})
                    /\ after.limit = cq.limit
                    /\ deletes' = <<>>
    ]_vars

\* C14: a reconciliation whose snapshot lacks a known pin takes it out of pins
\* and puts it back into the queue at the place its timestamp gives it; if the
\* queue is then longer than the limit, the oldest entries are evicted, one
\* delete request each, until it holds `limit` entries, and no more.
UnpinnedReenters ==
    [][Received("ChannelPinsUpdated") /\ handled'.channel \in Monitored =>
          LET c == handled'.channel
              cq == channel_queues[c]
              after == channel_queues'[c]
              removed == Without(cq.pins, Range(after.pins))
              added == Range(after.pins) \ Range(cq.pins)
              candidate == sort_by_timestamp(removed \o Without(cq.queue, added))
              excess == IF Len(candidate) > cq.limit THEN Len(candidate) - cq.limit ELSE 0
          IN removed # <<>> =>
                /\ Range(removed) \cap Range(after.pins) = {}
                /\ deletes' \o after.queue = candidate
                /\ \A i, j \in 1..Len(candidate) :
                       i < j => timestamp(candidate[i]) <= timestamp(candidate[j])
                /\ Len(deletes') = excess
                /\ Len(after.queue) = Min(Len(candidate), cq.limit)
                /\ after.limit = cq.limit
    ]_vars

\* a reconciliation has just put the unpinned message back between older and
\* newer ones and evicted the oldest
UnpinnedReenters_Witness ==
    /\ handled.type = "ChannelPinsUpdated"
    /\ handled.channel \in Monitored
    /\ LET cq == channel_queues[handled.channel]
       IN /\ cq.pins = <<>>
          /\ Len(deletes) = 1
          /\ Len(cq.queue) = cq.limit
          /\ \E i \in 2..(Len(cq.queue) - 1) : cq.queue[i] \in Pinnable
          /\ deletes[1] < cq.queue[1]

\* C15: a RemoveLimit for a channel that has no CappedQueue is answered with
\* the not-configured text, writes nothing to the persisted store, sends no
\* delete request and leaves the registry as it was.
RemoveUnknownIsNoop ==
    [][Received("RemoveLimit") /\ handled'.channel \notin Monitored =>
          /\ reply' = "no limit"
          /\ dbcalls' = <<>>
          /\ deletes' = <<>>
          /\ pc' = "idle"
          /\ UNCHANGED <<channel_queues, channel_limits, msgs, database>>
    ]_vars

\* a RemoveLimit for a channel without a queue has just been answered, the
\* store being connected
RemoveUnknownIsNoop_Witness ==
    /\ handled.type = "RemoveLimit"
    /\ reply = "no limit"
    /\ database
    /\ handled.channel \notin Monitored

\* C16: killswitch ends the process with a status other than 0 and does not
\* go through the channel of commands: it can be taken whenever the process
\* runs, also while the actor is in the middle of a command; it leaves the
\* channel and the actor where they were, and from then on nothing happens:
\* no waiting command is received and no command in progress goes on.
KillswitchStopsAll ==
    [][/\ exit_status = 0 => ENABLED (\E u \in Users : killswitch(u))
       /\ exit_status # 0 => UNCHANGED vars
       /\ exit_status' # exit_status => response' = "Killswitch flipped, bye bye~"
       /\ response' = "Killswitch flipped, bye bye~" =>
              /\ exit_status = 0 /\ exit_status' # 0
              /\ deletes' = <<>> /\ dbcalls' = <<>> /\ reply' = ""
              /\ UNCHANGED <<cmdq, pc, cur, todo, channel_queues, channel_limits,
                             database, msgs>>
    ]_vars

\* the process has exited while the actor waited for a channel's history and
\* another command waited in the channel
KillswitchStopsAll_Witness ==
    /\ exit_status = 1
    /\ pc = "scan"
    /\ cmdq # <<>>

\* C17: when a queue is created and the scan of the channel's history (newest
\* first) runs to its end, the queue is the newest min(N, number of messages
\* without the pinned flag) such messages, oldest in front; a delete request
\* is sent for each older one; no message with the pinned flag enters the
\* queue or is deleted; and the fetch of the pins that follows puts every
\* fetched pin into pins and leaves the queue alone.
FirstScanKeepsNewest ==
    [][/\ pc = "scan" /\ pc' = "pins" =>
              LET c == cur.channel
                  unpinned == SelectSeq(History(c), LAMBDA m : msgs[m].st # "pinned")
                  kept == Min(cur.arg, Len(unpinned))
                  after == channel_queues'[c]
              IN /\ after.queue = [i \in 1..kept |-> unpinned[kept + 1 - i]]
                 /\ deletes' = SubSeq(unpinned, kept + 1, Len(unpinned))
                 /\ after.pins = <<>>
                 /\ after.limit = cur.arg
                 /\ \A m \in RemotePins(c) :
                        /\ m \notin Range(after.queue)
                        /\ m \notin Range(deletes')
                        /\ msgs'[m] = msgs[m]
       /\ pc = "pins" /\ pc' # "pins" =>
              LET c == cur.channel
              IN /\ Range(channel_queues'[c].pins) \in {RemotePins(c), {}}
                 /\ channel_queues'[c].queue = channel_queues[c].queue
                 /\ deletes' = <<>>
                 /\ msgs' = msgs
    ]_vars

\* a scan has just ended that filled the queue to its limit and asked for the
\* deletion of an older message
FirstScanKeepsNewest_Witness ==
    /\ pc = "pins"
    /\ deletes # <<>>
    /\ Len(channel_queues[cur.channel].queue) = cur.arg

\* C18: every SetLimit that completes (a queue created, a limit raised,
\* lowered or left as it was) writes the channel's row with the new limit and
\* then exactly one audit record with the user, the channel and the new limit,
\* whatever was handled before it; a row replayed by init writes nothing.
SetLimitPersists ==
    [][/\ /\ handled'.type = "SetLimit"
          /\ reply' \in {"created", "already", "increased", "decreased"}
          => /\ dbcalls' = <<[op |-> "upsert", channel |-> handled'.channel,
                               limit |-> handled'.arg, user |-> NoUser],
                              [op |-> "audit", channel |-> handled'.channel,
                               limit |-> handled'.arg, user |-> handled'.user]>>
             /\ handled'.channel \in DOMAIN channel_limits'
             /\ channel_limits'[handled'.channel] = handled'.arg
       /\ handled'.type = "Initialize" /\ pc \in {"scan", "pins"}
          => dbcalls' = <<>> /\ channel_limits' = channel_limits
    ]_vars

\* C19: a command sends one delete request for each message it evicts and
\* asks for no message twice, and what it leaves locally is the same whether
\* the requests succeed or fail: after an insertion the new message is in the
\* queue, after a lowered limit the limit is the new one, the entries that
\* left the queue are exactly the ones requested, and the actor is back in
\* its loop.
DeleteOutcomeIgnored ==
    [][/\ Cardinality(Range(deletes')) = Len(deletes')
       /\ deletes' # <<>> => \E ok \in SUBSET Range(deletes') : msgs' = AfterDeletes(ok)
       /\ Received("MessageReceived") \/ Received("SetLimit") =>
              LET c == handled'.channel
              IN c \in Monitored /\ deletes' # <<>> =>
                    LET cq == channel_queues[c]
                        after == channel_queues'[c]
                        entered == IF handled'.type = "MessageReceived"
                                   THEN <<handled'.arg>> ELSE <<>>
                    IN /\ sort_by_timestamp(deletes' \o after.queue)
                              = sort_by_timestamp(cq.queue \o entered)
                       /\ Range(entered) \subseteq Range(after.queue)
                       /\ Len(after.queue) <= after.limit
                       /\ after.pins = cq.pins
                       /\ after.limit = IF handled'.type = "SetLimit"
                                        THEN handled'.arg ELSE cq.limit
                       /\ pc' \in {"idle", "dead"}
    ]_vars

\* C20: MessageReceived, MessageDeleted and ChannelPinsUpdated for a channel
\* that has no queue change nothing: the registry (so every other channel's
\* queue, pins and limit) stays as it was, no delete request is sent, the
\* remote and the store are untouched.  And removing a message from a
\* monitored channel is idempotent: after the removal the message is in
\* neither list, a further removal would give the same queue, and a removal
\* of a message the channel does not hold changes nothing.
UnmonitoredIsNoop ==
    [][/\ /\ \/ Received("MessageReceived")
             \/ Received("MessageDeleted")
             \/ Received("ChannelPinsUpdated")
          /\ handled'.channel \notin Monitored
          => /\ channel_queues' = channel_queues
             /\ deletes' = <<>>
             /\ dbcalls' = <<>>
             /\ reply' = ""
             /\ pc' = "idle"
             /\ UNCHANGED <<msgs, channel_limits, database>>
       /\ Received("MessageDeleted") /\ handled'.channel \in Monitored
          => LET c == handled'.channel
                 m == handled'.arg
                 cq == channel_queues[c]
                 after == channel_queues'[c]
             IN /\ m \notin Range(after.queue) \cup Range(after.pins)
                /\ remove_message(after, m) = after
                /\ m \notin Range(cq.queue) \cup Range(cq.pins) => after = cq
                /\ \A d \in Monitored \ {c} : channel_queues'[d] = channel_queues[d]
                /\ Monitored' = Monitored
                /\ deletes' = <<>>
                /\ dbcalls' = <<>>
                /\ UNCHANGED <<msgs, channel_limits, database>>
    ]_vars

\* the deletion of a message of a channel without a queue has been handled
\* while another channel holds a full queue
UnmonitoredIsNoop_Witness ==
    /\ handled.type = "MessageDeleted"
    /\ handled.channel \notin Monitored
    /\ \E d \in Monitored : Len(channel_queues[d].queue) = channel_queues[d].limit

\* C21: a message deleted by a user and a change of a channel's pins are each
\* followed by the actor handling the matching command: once a message of a
\* monitored channel is gone by its author's hand, a MessageDeleted for it is
\* handled, and once a message of a monitored channel is pinned, a
\* ChannelPinsUpdated for its channel is handled.
EventsReachActor ==
    /\ \A m \in UserDeletable :
          (/\ m \in Posted
           /\ msgs[m].st = "gone"
           /\ msgs[m].channel \in Monitored)
             ~> (handled.type = "MessageDeleted" /\ handled.arg = m)
    /\ \A m \in Pinnable :
          (/\ m \in Posted
           /\ msgs[m].st = "pinned"
           /\ msgs[m].channel \in Monitored)
             ~> (handled.type = "ChannelPinsUpdated"
                   /\ handled.channel = msgs[m].channel)

\* C22: no delete request is ever sent for a pinned message: none for a
\* message that is in the pins list of its channel when the request is sent,
\* and none for a message that was pinned on the remote before the step that
\* evicts it.
NoDeleteOfPinned ==
    [][\A i \in 1..Len(deletes') :
          LET m == deletes'[i]
              c == msgs[m].channel
          IN /\ msgs[m].st # "pinned"
             /\ c \in Monitored => m \notin Range(channel_queues[c].pins)
    ]_vars

\* C23: no queue holds a message twice, whatever the interleaving of the
\* users' posts with a first-time SetLimit or a replay of init.
QueueHoldsOnce ==
    \A c \in Monitored :
        Cardinality(Range(channel_queues[c].queue)) = Len(channel_queues[c].queue)

\* C24: with the rows of channel_limits written by this program only, every
\* limit in the registry and every stored limit is an integer from 5 to 500,
\* so never zero: the loop of insert_message, which pops while the queue is
\* at least as long as the limit, ends with a queue shorter than the limit.
LimitsInRange ==
    /\ \A c \in Monitored :
          /\ channel_queues[c].limit \in QUEUE_LIMIT_MIN..QUEUE_LIMIT_MAX
          /\ channel_queues[c].limit > 0
          /\ handled.type = "MessageReceived" /\ handled.channel = c
                => Len(channel_queues[c].queue) - 1 < channel_queues[c].limit
    /\ \A c \in DOMAIN channel_limits :
          channel_limits[c] \in QUEUE_LIMIT_MIN..QUEUE_LIMIT_MAX

\* an insertion has evicted from a queue whose limit is the smallest one
LimitsInRange_Witness ==
    /\ handled.type = "MessageReceived"
    /\ deletes # <<>>
    /\ handled.channel \in Monitored
    /\ channel_queues[handled.channel].limit = QUEUE_LIMIT_MIN

====
